---- MODULE Spec2Model ----
(***************************************************************************)
(* A model of zeta.py: the timed arithmetic session (play_game), its       *)
(* keystroke capture (get_user_input), the SIGINT handler                  *)
(* (exit_gracefully) and the two CSV logs.                                 *)
(*                                                                         *)
(* Strings the program handles one character at a time (the capture        *)
(* buffer) are sequences of one-character strings.  The main flow is a     *)
(* program counter pc over the statements of play_game/get_user_input; the *)
(* SIGINT handler is a second counter hpc: CPython runs a Python signal    *)
(* handler on the main thread between two bytecode instructions (or when a *)
(* blocking read is interrupted), so the main flow stands still while      *)
(* hpc # "none", and the SystemExit the handler raises unwinds the main    *)
(* flow from wherever it stood.                                            *)
(***************************************************************************)
EXTENDS Integers, Sequences, FiniteSets, TLC

VARIABLES
    pc,            \* position of the main flow
    hpc,           \* position of the innermost running exit_gracefully, or "none"
    exc,           \* exception unwinding get_user_input: "none", "KeyboardInterrupt", "SystemExit"
    termMode,      \* terminal input mode of fd (what tcgetattr would return)
    old_settings,  \* get_user_input: mode saved on entry
    user_input,    \* get_user_input: the buffer; play_game: user_answer once returned
    keys_read,     \* the keystrokes sys.stdin.read(1) has delivered to the running capture
    typing,        \* how the player types: "free" (any keys) or "scripted"
    problem,       \* play_game: current problem <<num1, operation, num2>>
    answer,        \* play_game: its answer (correct_answer inside get_user_input)
    question_start_time,
    now,           \* time.time(), in ticks
    score,
    question_log,
    detailed_log,  \* rows of Config.DETAILED_LOG_FILE, <<>> when the file is absent
    summary_log,   \* rows of Config.SUMMARY_LOG_FILE, <<>> when the file is absent
    report,        \* lines of the final report printed by time_up_message
    session,       \* "Running", "TimedOut", "UserExited", "Interrupted"
    nproblems,     \* problems generated so far (bounded)
    nsignals       \* SIGINTs delivered so far (bounded)

vars == <<pc, hpc, exc, termMode, old_settings, user_input, keys_read, typing,
          problem, answer, question_start_time, now, score, question_log,
          detailed_log, summary_log, report, session, nproblems, nsignals>>

(***************************************************************************)
(* Bounds of the model.                                                    *)
(***************************************************************************)
MaxKeys == 4        \* keystrokes read by one capture
MaxSignals == 1     \* SIGINTs delivered to the process
MaxProblems == 3    \* problems generated in one session
TimerDuration == 1  \* Config.TIMER_DURATION (120 s) in ticks of the model clock
MaxTime == TimerDuration + 1   \* last tick of the model clock

start_time == 0

(***************************************************************************)
(* Characters and the str methods the program uses.                        *)
(***************************************************************************)
Digits == {"0", "1", "2", "3", "4", "5", "6", "7", "8", "9"}

DigitVal(c) ==
    CASE c = "0" -> 0 [] c = "1" -> 1 [] c = "2" -> 2 [] c = "3" -> 3
      [] c = "4" -> 4 [] c = "5" -> 5 [] c = "6" -> 6 [] c = "7" -> 7
      [] c = "8" -> 8 [] c = "9" -> 9

UpperCase == <<"A","B","C","D","E","F","G","H","I","J","K","L","M",
               "N","O","P","Q","R","S","T","U","V","W","X","Y","Z">>
LowerCase == <<"a","b","c","d","e","f","g","h","i","j","k","l","m",
               "n","o","p","q","r","s","t","u","v","w","x","y","z">>

LowerChar(c) ==
    IF \E i \in 1..26 : UpperCase[i] = c
    THEN LowerCase[CHOOSE i \in 1..26 : UpperCase[i] = c]
    ELSE c

\* str.lower()
lower(s) == [i \in 1..Len(s) |-> LowerChar(s[i])]

\* str.lstrip("-")
RECURSIVE lstrip_minus(_)
lstrip_minus(s) ==
    IF s # <<>> /\ Head(s) = "-" THEN lstrip_minus(Tail(s)) ELSE s

\* str.isdigit() on ASCII text: non-empty and every character a digit
isdigit(s) == s # <<>> /\ \A i \in 1..Len(s) : s[i] \in Digits

\* str.strip() as int() applies it: leading and trailing whitespace dropped
RECURSIVE strip(_)
strip(s) ==
    IF s = <<>> THEN s
    ELSE IF Head(s) = " " THEN strip(Tail(s))
    ELSE IF s[Len(s)] = " " THEN strip(SubSeq(s, 1, Len(s) - 1))
    ELSE s

RECURSIVE DigitsValue(_)
DigitsValue(s) ==
    IF s = <<>> THEN 0
    ELSE 10 * DigitsValue(SubSeq(s, 1, Len(s) - 1)) + DigitVal(s[Len(s)])

\* the digit groups of an int() literal: digits, single underscores between digits
IntBodyOk(b) ==
    /\ b # <<>>
    /\ \A i \in 1..Len(b) : b[i] \in Digits \cup {"_"}
    /\ b[1] \in Digits /\ b[Len(b)] \in Digits
    /\ \A i \in 1..(Len(b) - 1) : ~(b[i] = "_" /\ b[i + 1] = "_")

IntSigned(s) == s # <<>> /\ Head(s) \in {"-", "+"}
IntBody(s) == IF IntSigned(strip(s)) THEN Tail(strip(s)) ELSE strip(s)

\* int(s) does not raise ValueError
IntParses(s) == IntBodyOk(IntBody(s))

\* int(s), for s with IntParses(s)
IntValue(s) ==
    LET v == DigitsValue(SelectSeq(IntBody(s), LAMBDA c : c \in Digits))
    IN IF strip(s)[1] = "-" THEN 0 - v ELSE v

EXIT == <<"e", "x", "i", "t">>

(***************************************************************************)
(* Keys.  Every value of ch that get_user_input tells apart.               *)
(***************************************************************************)
CTRL_C == "ETX"                 \* "\x03"
BackspaceKeys == {"DEL", "BS"}  \* "\x7f", "\b"
EnterKeys == {"CR", "LF"}       \* "\r", "\n"
SpecialKeys == {CTRL_C} \cup BackspaceKeys \cup EnterKeys

Chars == {"2", "4", "7", "9", "-", "e", "x", "i", "t", "E"}

\* what a scripted player types at a prompt: one of these, or a beginning of one
PlayerScripts ==
    { <<"7", "CR">>,
      <<"7", "7">>,
      <<"7", "x", "DEL", "LF">>,
      <<"x", "CR">>,
      <<"CR">>,
      <<"e", "x", "i", "t">>,
      <<"E", "x", "i", "t">>,
      <<"7", CTRL_C>> }

IsPrefix(p, s) == Len(p) <= Len(s) /\ SubSeq(s, 1, Len(p)) = p

(***************************************************************************)
(* Config and generate_problem.                                            *)
(***************************************************************************)
ADD_SUB_RANGE == 2..100
MULT_SMALL_RANGE == 2..12
MULT_BIG_RANGE == 2..100

Max(a, b) == IF a >= b THEN a ELSE b
Min(a, b) == IF a <= b THEN a ELSE b

\* a draw <<operation, first random.choice, second random.choice>> is one the code can make
DrawOk(d) ==
    CASE d[1] \in {"+", "-"} -> d[2] \in ADD_SUB_RANGE /\ d[3] \in ADD_SUB_RANGE
      [] d[1] \in {"*", "/"} -> d[2] \in MULT_SMALL_RANGE /\ d[3] \in MULT_BIG_RANGE

\* subtraction without line 82, the operands left as drawn
generate_problem_NoSwap(d) ==
    LET operation == d[1]
        r1 == d[2]
        r2 == d[3]
    IN CASE operation = "+" ->
              [problem |-> <<r1, "+", r2>>, answer |-> r1 + r2]
         [] operation = "-" ->
              [problem |-> <<r1, "-", r2>>, answer |-> r1 - r2]
         [] operation = "*" ->
              [problem |-> <<r1, "*", r2>>, answer |-> r1 * r2]
         [] OTHER ->
              [problem |-> <<r1 * r2, "/", r1>>, answer |-> (r1 * r2) \div r1]

\* division of two independent draws, the dividend not built from the divisor
generate_problem_PlainDivision(d) ==
    LET operation == d[1]
        r1 == d[2]
        r2 == d[3]
    IN CASE operation = "+" ->
              [problem |-> <<r1, "+", r2>>, answer |-> r1 + r2]
         [] operation = "-" ->
              [problem |-> <<Max(r1, r2), "-", Min(r1, r2)>>,
               answer |-> Max(r1, r2) - Min(r1, r2)]
         [] operation = "*" ->
              [problem |-> <<r1, "*", r2>>, answer |-> r1 * r2]
         [] OTHER ->
              [problem |-> <<r2, "/", r1>>, answer |-> r2 \div r1]

\* lines 70-95
generate_problem(d) ==
    LET operation == d[1]
        r1 == d[2]
        r2 == d[3]
    IN CASE operation = "+" ->
              [problem |-> <<r1, "+", r2>>, answer |-> r1 + r2]
         [] operation = "-" ->
              [problem |-> <<Max(r1, r2), "-", Min(r1, r2)>>,
               answer |-> Max(r1, r2) - Min(r1, r2)]
         [] operation = "*" ->
              [problem |-> <<r1, "*", r2>>, answer |-> r1 * r2]
         [] OTHER ->
              [problem |-> <<r1 * r2, "/", r1>>, answer |-> (r1 * r2) \div r1]

\* every draw of lines 72-91
AllDraws ==
    ({"+", "-"} \X ADD_SUB_RANGE \X ADD_SUB_RANGE)
        \cup ({"*", "/"} \X MULT_SMALL_RANGE \X MULT_BIG_RANGE)

\* the draws the model makes in a session
CaptureDraws == {<<"+", 5, 2>>, <<"*", 6, 7>>}
SessionDraws == {<<"-", 2, 9>>, <<"*", 7, 11>>}

(***************************************************************************)
(* The CSV logs.  A file is the sequence of its rows; a row is a record    *)
(* [kind, cells].                                                          *)
(***************************************************************************)
DetailedHeader ==
    [kind |-> "header",
     cells |-> <<"datetime", "time_taken", "question", "answer", "correct">>]
SummaryHeader ==
    [kind |-> "header",
     cells |-> <<"Timestamp", "Duration (s)", "Final Score", "Questions & Answers">>]

file_exists(file) == file # <<>>

\* the correct flag computed against a misspelt status
log_detailed_Misspelt(file, timestamp, question, correct_answer, user_answer, time_taken, status) ==
    LET row == [kind |-> "row",
                cells |-> <<timestamp, time_taken, question, user_answer,
                            status = "correct">>]
    IN IF file_exists(file) THEN Append(file, row)
       ELSE <<DetailedHeader, row>>

log_detailed(file, timestamp, question, correct_answer, user_answer, time_taken, status) ==
    LET row == [kind |-> "row",
                cells |-> <<timestamp, time_taken, question, user_answer,
                            status = "Correct">>]
    IN IF file_exists(file) THEN Append(file, row)
       ELSE <<DetailedHeader, row>>

\* the header written on every call
log_summary_AlwaysHeader(file, session_data) ==
    LET row == [kind |-> "row", cells |-> session_data]
    IN Append(Append(file, SummaryHeader), row)

log_summary(file, session_data) ==
    LET row == [kind |-> "row", cells |-> session_data]
    IN IF file_exists(file) THEN Append(file, row)
       ELSE <<SummaryHeader, row>>

format_session_data(start, sc, t) == <<t, t - start, sc>>

\* time_up_message, first half: the summary row
FinalizeLog(file, sc, t) == log_summary(file, format_session_data(start_time, sc, t))

\* time_up_message, second half: one marked line per entry of question_log
FinalizeReport(qlog) ==
    [i \in 1..Len(qlog) |->
        [marker |-> IF qlog[i].status = "Correct" THEN "ok" ELSE "ko",
         entry |-> qlog[i]]]

(***************************************************************************)
(* get_user_input.                                                         *)
(***************************************************************************)
TermModes == {"cooked", "cbreak"}

\* the exit test without .lower()
ExitTyped_CaseSensitive(buf) == buf = EXIT

\* line 181
ExitTyped(buf) == lower(buf) = EXIT

\* the buffer compared with the answer as text against number: never equal
AnswerTyped_Never(buf, correct_answer) == FALSE

\* lines 186-193
AnswerTyped(buf, correct_answer) ==
    /\ isdigit(lstrip_minus(buf))
    /\ IntParses(buf)            \* otherwise ValueError: pass
    /\ IntValue(buf) = correct_answer

\* the numeric auto-submit left out
AutoSubmits_ExitOnly(buf, correct_answer) == ExitTyped(buf)

\* lines 181 and 186-188
AutoSubmits(buf, correct_answer) ==
    ExitTyped(buf) \/ AnswerTyped(buf, correct_answer)

\* what the finally clause hands to tcsetattr
\* the terminal reset to a fixed mode instead of the saved one
RestoredMode_Cooked(saved, current) == "cooked"

RestoredMode(saved, current) == saved

Alive == pc \notin {"done", "exited", "crashed"}
MainRuns == Alive /\ hpc = "none"

CaptureUnchanged ==
    UNCHANGED <<hpc, typing, problem, answer, question_start_time, now, score,
                question_log, detailed_log, summary_log, report, nproblems, nsignals>>

\* lines 158-162: save the mode, empty buffer, raw mode
CaptureEnter ==
    /\ MainRuns /\ pc = "cap_enter"
    /\ old_settings' = termMode
    /\ user_input' = <<>>
    /\ keys_read' = <<>>
    /\ termMode' = "raw"
    /\ pc' = "cap_read"
    /\ UNCHANGED <<exc, session>>
    /\ CaptureUnchanged

\* the player presses ch while the capture waits for a key
Pressed(ch) ==
    IF typing = "free"
    THEN Len(keys_read) < MaxKeys
    ELSE \E s \in PlayerScripts : IsPrefix(Append(keys_read, ch), s)

\* line 164
Reading(ch) ==
    /\ MainRuns /\ pc = "cap_read"
    /\ Pressed(ch)
    /\ keys_read' = Append(keys_read, ch)

\* lines 165-166
KeyCtrlC ==
    /\ Reading(CTRL_C)
    /\ exc' = "KeyboardInterrupt"
    /\ pc' = "cap_finally"
    /\ session' = "Interrupted"
    /\ UNCHANGED <<termMode, old_settings, user_input>>
    /\ CaptureUnchanged

\* backspace empties the buffer
KeyBackspace_Clears ==
    /\ \E ch \in BackspaceKeys : Reading(ch)
    /\ user_input' = <<>>
    /\ UNCHANGED <<pc, exc, termMode, old_settings, session>>
    /\ CaptureUnchanged

\* backspace removes the first character, user_input[1:]
KeyBackspace_DropsFirst ==
    /\ \E ch \in BackspaceKeys : Reading(ch)
    /\ user_input' = IF user_input # <<>> THEN Tail(user_input) ELSE user_input
    /\ UNCHANGED <<pc, exc, termMode, old_settings, session>>
    /\ CaptureUnchanged

\* lines 167-171
KeyBackspace ==
    /\ \E ch \in BackspaceKeys : Reading(ch)
    /\ user_input' = IF user_input # <<>>
                     THEN SubSeq(user_input, 1, Len(user_input) - 1)
                     ELSE user_input
    /\ UNCHANGED <<pc, exc, termMode, old_settings, session>>
    /\ CaptureUnchanged

\* lines 172-175
KeyEnter ==
    /\ \E ch \in EnterKeys : Reading(ch)
    /\ pc' = "cap_finally"
    /\ UNCHANGED <<exc, termMode, old_settings, user_input, session>>
    /\ CaptureUnchanged

\* lines 176-193
KeyChar ==
    /\ \E ch \in Chars :
          /\ Reading(ch)
          /\ user_input' = Append(user_input, ch)
    /\ pc' = IF AutoSubmits(user_input', answer) THEN "cap_finally" ELSE "cap_read"
    /\ UNCHANGED <<exc, termMode, old_settings, session>>
    /\ CaptureUnchanged

\* lines 194-195, then the return or the exception leaves get_user_input
CaptureFinally ==
    /\ MainRuns /\ pc = "cap_finally"
    /\ termMode' = RestoredMode(old_settings, termMode)
    /\ pc' = CASE exc = "none" -> "post_capture"
               [] exc = "KeyboardInterrupt" -> "crashed"
               [] OTHER -> "exited"
    /\ UNCHANGED <<exc, old_settings, user_input, keys_read, session>>
    /\ CaptureUnchanged

(***************************************************************************)
(* play_game.                                                              *)
(***************************************************************************)
\* a deadline test that lets the tick of the deadline itself pass
TimeIsUp_Strict(t) == t - start_time > TimerDuration

\* a loop without the deadline check
TimeIsUp_Never(t) == FALSE

\* line 213
TimeIsUp(t) == t - start_time >= TimerDuration

\* the exit test without .lower()
IsExit_CaseSensitive(user_answer) == user_answer = EXIT

\* line 227
IsExit(user_answer) == lower(user_answer) = EXIT

QuestionRecord(p, user_answer, status, time_taken) ==
    [problem |-> p, user_answer |-> user_answer, status |-> status,
     time_taken |-> time_taken]

time_taken == now - question_start_time

GameUnchanged == UNCHANGED <<hpc, exc, termMode, old_settings, typing, nsignals>>

\* lines 213-215: the deadline check, taken
LoopTimeout ==
    /\ MainRuns /\ pc = "loop_top"
    /\ TimeIsUp(now)
    /\ session' = "TimedOut"
    /\ pc' = "fin_log"
    /\ UNCHANGED <<user_input, keys_read, problem, answer, question_start_time, now,
                   score, question_log, detailed_log, summary_log, report, nproblems>>
    /\ GameUnchanged

\* lines 213, 217-221: the deadline check, not taken; a new problem and its prompt
GenerateFrom(draws) ==
    /\ MainRuns /\ pc = "loop_top"
    /\ ~TimeIsUp(now)
    /\ nproblems < MaxProblems
    /\ \E d \in draws :
          /\ DrawOk(d)
          /\ problem' = generate_problem(d).problem
          /\ answer' = generate_problem(d).answer
    /\ question_start_time' = now
    /\ nproblems' = nproblems + 1
    /\ pc' = "cap_enter"
    /\ UNCHANGED <<user_input, keys_read, now, score, question_log, detailed_log,
                   summary_log, report, session>>
    /\ GameUnchanged

LoopGenerate == GenerateFrom(SessionDraws)

\* the same step with every draw random.choice can make
GenerateAny == GenerateFrom(AllDraws)

\* the locals of a finished iteration (problem, answer, user_answer,
\* question_start_time) are dead: each is assigned again before it is read
Forget ==
    /\ user_input' = <<>>
    /\ problem' = <<>>
    /\ answer' = 0
    /\ question_start_time' = 0

\* invalid input asks the same problem again
AfterCapture_Reprompt ==
    /\ MainRuns /\ pc = "post_capture"
    /\ keys_read' = <<>>
    /\ IF IsExit(user_input)
       THEN /\ session' = "UserExited"
            /\ pc' = "fin_log"
            /\ Forget
       ELSE IF ~IntParses(user_input)
       THEN /\ session' = session
            /\ pc' = "cap_enter"
            /\ UNCHANGED <<user_input, problem, answer, question_start_time>>
       ELSE /\ session' = session
            /\ pc' = IF IntValue(user_input) = answer THEN "correct_append"
                     ELSE "wrong_append"
            /\ UNCHANGED <<user_input, problem, answer, question_start_time>>
    /\ UNCHANGED <<now, score, question_log, detailed_log, summary_log, report,
                   nproblems>>
    /\ GameUnchanged

\* lines 222-232, 241, 247-248: the returned answer is classified
AfterCapture ==
    /\ MainRuns /\ pc = "post_capture"
    /\ keys_read' = <<>>
    /\ IF IsExit(user_input)
       THEN /\ session' = "UserExited"
            /\ pc' = "fin_log"
            /\ Forget
       ELSE IF ~IntParses(user_input)
       THEN /\ session' = session
            /\ pc' = "loop_top"
            /\ Forget
       ELSE /\ session' = session
            /\ pc' = IF IntValue(user_input) = answer THEN "correct_append"
                     ELSE "wrong_append"
            /\ UNCHANGED <<user_input, problem, answer, question_start_time>>
    /\ UNCHANGED <<now, score, question_log, detailed_log, summary_log, report,
                   nproblems>>
    /\ GameUnchanged

\* lines 233-235 and 242
AppendRecord ==
    /\ MainRuns /\ pc \in {"correct_append", "wrong_append"}
    /\ question_log' =
          Append(question_log,
                 QuestionRecord(problem, user_input,
                                IF pc = "correct_append" THEN "Correct" ELSE "Wrong",
                                time_taken))
    /\ pc' = IF pc = "correct_append" THEN "correct_log" ELSE "wrong_log"
    /\ UNCHANGED <<user_input, keys_read, problem, answer, question_start_time, now,
                   score, detailed_log, summary_log, report, session, nproblems>>
    /\ GameUnchanged

\* lines 236-238 and 243-246
LogAnswer ==
    /\ MainRuns /\ pc \in {"correct_log", "wrong_log"}
    /\ detailed_log' =
          log_detailed(detailed_log, now, problem, answer, user_input, time_taken,
                       IF pc = "correct_log" THEN "Correct" ELSE "Wrong")
    /\ pc' = IF pc = "correct_log" THEN "correct_score" ELSE "loop_top"
    /\ Forget
    /\ UNCHANGED <<keys_read, now, score, question_log, summary_log, report, session,
                   nproblems>>
    /\ GameUnchanged

\* lines 239-240
IncrementScore ==
    /\ MainRuns /\ pc = "correct_score"
    /\ score' = score + 1
    /\ pc' = "loop_top"
    /\ UNCHANGED <<user_input, keys_read, problem, answer, question_start_time, now,
                   question_log, detailed_log, summary_log, report, session, nproblems>>
    /\ GameUnchanged

\* time_up_message called from the loop, lines 135-136
MainFinalizeLog ==
    /\ MainRuns /\ pc = "fin_log"
    /\ summary_log' = FinalizeLog(summary_log, score, now)
    /\ pc' = "fin_report"
    /\ UNCHANGED <<user_input, keys_read, problem, answer, question_start_time, now,
                   score, question_log, detailed_log, report, session, nproblems>>
    /\ GameUnchanged

\* time_up_message called from the loop, lines 137-147, and play_game returns
MainFinalizeReport ==
    /\ MainRuns /\ pc = "fin_report"
    /\ report' = FinalizeReport(question_log)
    /\ pc' = "done"
    /\ UNCHANGED <<user_input, keys_read, problem, answer, question_start_time, now,
                   score, question_log, detailed_log, summary_log, session, nproblems>>
    /\ GameUnchanged

(***************************************************************************)
(* SIGINT and exit_gracefully.                                             *)
(***************************************************************************)
HandlerUnchanged ==
    UNCHANGED <<termMode, old_settings, user_input, keys_read, typing, problem,
                answer, question_start_time, now, score, question_log, detailed_log,
                nproblems>>

\* the signal is delivered and exit_gracefully is entered; a handler that was
\* already running is suspended under the new one
Sigint ==
    /\ Alive
    /\ nsignals < MaxSignals
    /\ nsignals' = nsignals + 1
    /\ hpc' = "h_log"
    /\ session' = IF session = "Running" THEN "Interrupted" ELSE session
    /\ UNCHANGED <<pc, exc, summary_log, report>>
    /\ HandlerUnchanged

\* line 207: time_up_message, lines 135-136
HandlerFinalizeLog ==
    /\ Alive /\ hpc = "h_log"
    /\ summary_log' = FinalizeLog(summary_log, score, now)
    /\ hpc' = "h_report"
    /\ UNCHANGED <<pc, exc, report, session, nsignals>>
    /\ HandlerUnchanged

\* line 207: time_up_message, lines 137-147
HandlerFinalizeReport ==
    /\ Alive /\ hpc = "h_report"
    /\ report' = FinalizeReport(question_log)
    /\ hpc' = "h_exit"
    /\ UNCHANGED <<pc, exc, summary_log, session, nsignals>>
    /\ HandlerUnchanged

\* where SystemExit takes the main flow: into the finally clause when it is
\* raised inside the try (the read), out of the process otherwise -- also when
\* it is raised inside the finally clause before tcsetattr has run
UnwindTarget(at) == IF at = "cap_read" THEN "cap_finally" ELSE "exited"

\* line 208: sys.exit(0) raises SystemExit through every suspended frame
HandlerExit ==
    /\ Alive /\ hpc = "h_exit"
    /\ hpc' = "none"
    /\ pc' = UnwindTarget(pc)
    /\ exc' = IF pc = "cap_read" THEN "SystemExit" ELSE exc
    /\ UNCHANGED <<summary_log, report, session, nsignals>>
    /\ HandlerUnchanged

\* time passes while the main flow is blocked in sys.stdin.read(1), the only
\* blocking operation; every other statement takes no measurable time
Tick ==
    /\ MainRuns /\ pc = "cap_read"
    /\ now < MaxTime
    /\ now' = now + 1
    /\ UNCHANGED <<pc, hpc, exc, termMode, old_settings, user_input, keys_read,
                   typing, problem, answer, question_start_time, score,
                   question_log, detailed_log, summary_log, report, session,
                   nproblems, nsignals>>

(***************************************************************************)
(* Specifications.                                                         *)
(***************************************************************************)
\* play_game after line 210: handler installed, nothing asked yet
Init ==
    /\ pc = "loop_top"
    /\ hpc = "none"
    /\ exc = "none"
    /\ termMode = "cooked"
    /\ old_settings = termMode
    /\ user_input = <<>>
    /\ keys_read = <<>>
    /\ typing = "scripted"
    /\ problem = <<>>
    /\ answer = 0
    /\ question_start_time = 0
    /\ now = start_time
    /\ score = 0
    /\ question_log = <<>>
    /\ detailed_log = <<>>
    /\ summary_log = <<>>
    /\ report = <<>>
    /\ session = "Running"
    /\ nproblems = 0
    /\ nsignals = 0

Next ==
    \/ LoopTimeout
    \/ LoopGenerate
    \/ CaptureEnter
    \/ KeyCtrlC
    \/ KeyBackspace
    \/ KeyEnter
    \/ KeyChar
    \/ CaptureFinally
    \/ AfterCapture
    \/ AppendRecord
    \/ LogAnswer
    \/ IncrementScore
    \/ MainFinalizeLog
    \/ MainFinalizeReport
    \/ Sigint
    \/ HandlerFinalizeLog
    \/ HandlerFinalizeReport
    \/ HandlerExit
    \/ Tick

Spec == Init /\ [][Next]_vars

\* the files an earlier session has left in ~/.zeta: absent, or the header
\* and the rows it wrote (here one Wrong answer, and a timeout at score 0)
PriorDetailedLogs ==
    {<<>>, log_detailed(<<>>, 0, <<9, "-", 2>>, 7, <<"4">>, 0, "Wrong")}
PriorSummaryLogs ==
    {<<>>, FinalizeLog(<<>>, 0, TimerDuration)}

\* a session started over the files of an earlier one
InitLogs ==
    /\ pc = "loop_top" /\ hpc = "none" /\ exc = "none"
    /\ termMode = "cooked" /\ old_settings = termMode
    /\ user_input = <<>> /\ keys_read = <<>> /\ typing = "scripted"
    /\ problem = <<>> /\ answer = 0 /\ question_start_time = 0
    /\ now = start_time /\ score = 0 /\ question_log = <<>>
    /\ detailed_log \in PriorDetailedLogs
    /\ summary_log \in PriorSummaryLogs
    /\ report = <<>> /\ session = "Running"
    /\ nproblems = 0 /\ nsignals = 0

SpecLogs == InitLogs /\ [][Next]_vars

\* the steps the interpreter takes by itself: everything but the blocking
\* read of a key (the player), the arrival of a signal and the clock
ProgramStep ==
    \/ LoopTimeout
    \/ LoopGenerate
    \/ CaptureEnter
    \/ CaptureFinally
    \/ AfterCapture
    \/ AppendRecord
    \/ LogAnswer
    \/ IncrementScore
    \/ MainFinalizeLog
    \/ MainFinalizeReport
    \/ HandlerFinalizeLog
    \/ HandlerFinalizeReport
    \/ HandlerExit

\* the session with a running interpreter: no step of the program waits
\* forever; sys.stdin.read(1) (line 164) is the one operation that may
SpecLive == Spec /\ WF_vars(ProgramStep)

\* generate_problem alone: the first problem of a session, over every draw
NextGen == GenerateAny

SpecGen == Init /\ [][NextGen]_vars

\* get_user_input(correct_answer) alone
InitCapture ==
    /\ pc = "cap_enter"
    /\ hpc = "none"
    /\ exc = "none"
    /\ termMode \in TermModes
    /\ old_settings = termMode
    /\ user_input = <<>>
    /\ keys_read = <<>>
    /\ typing = "free"
    /\ \E d \in CaptureDraws :
          /\ DrawOk(d)
          /\ problem = generate_problem(d).problem
          /\ answer = generate_problem(d).answer
    /\ question_start_time = 0
    /\ now = start_time
    /\ score = 0
    /\ question_log = <<>>
    /\ detailed_log = <<>>
    /\ summary_log = <<>>
    /\ report = <<>>
    /\ session = "Running"
    /\ nproblems = 1
    /\ nsignals = 0

NextCapture ==
    \/ CaptureEnter
    \/ KeyCtrlC
    \/ KeyBackspace
    \/ KeyEnter
    \/ KeyChar
    \/ CaptureFinally

SpecCapture == InitCapture /\ [][NextCapture]_vars

(***************************************************************************)
(* Vocabulary of the properties.                                           *)
(***************************************************************************)
Terminated == pc \in {"done", "exited", "crashed"}
InCapture == pc \in {"cap_read", "cap_finally"}
Returned == pc = "post_capture"
MainStep == hpc = "none" /\ pc' # pc

DataRows(file) == {i \in 1..Len(file) : file[i].kind = "row"}
SummaryRows == DataRows(summary_log)
DetailedRows == DataRows(detailed_log)

\* an optionally-negative integer literal: digits, or "-" and digits
IsLiteral(s) ==
    \/ isdigit(s)
    \/ s # <<>> /\ Head(s) = "-" /\ isdigit(Tail(s))
LiteralValue(s) ==
    IF Head(s) = "-" THEN 0 - DigitsValue(Tail(s)) ELSE DigitsValue(s)
MatchesAnswer(s) == IsLiteral(s) /\ LiteralValue(s) = answer
SaysExit(s) == Len(s) = 4 /\ lower(s) = <<"e", "x", "i", "t">>

(***************************************************************************)
(* C1.  An interrupted session never ends without a summary row carrying   *)
(* the current score and a rendered report: whenever the process has       *)
(* terminated in state Interrupted, finalize has run.                      *)
(* Fails: Ctrl+C typed during a capture is read as "\x03" (raw mode), line *)
(* 166 raises KeyboardInterrupt, nothing catches it and exit_gracefully is *)
(* not called.                                                             *)
(***************************************************************************)
C1_InterruptFinalizes ==
    (session = "Interrupted" /\ Terminated) =>
        \E i \in SummaryRows : summary_log[i].cells[3] = score

(***************************************************************************)
(* C2.  Once a call of get_user_input has been left, by return or by       *)
(* exception, the terminal mode is the one the call found.                 *)
(* Fails: a SIGINT taken after the try body is left and before tcsetattr   *)
(* has run raises SystemExit inside the finally clause, which is abandoned *)
(* with the terminal still raw.                                            *)
(***************************************************************************)
C2_TerminalRestored ==
    ~InCapture => termMode = old_settings

(***************************************************************************)
(* C3.  Finalize never executes while a capture is in progress: when       *)
(* exit_gracefully has written its summary row, no capture is Accumulating *)
(* in raw mode.                                                            *)
(* Fails: the handler runs time_up_message first and only its sys.exit     *)
(* aborts the capture.                                                     *)
(***************************************************************************)
C3_AbortBeforeFinalize ==
    hpc \in {"h_report", "h_exit"} => ~(pc = "cap_read" /\ termMode = "raw")

(***************************************************************************)
(* C4.  A session appends at most one summary row.                         *)
(* Fails: a SIGINT taken while time_up_message runs after a timeout or an  *)
(* exit calls time_up_message again.                                       *)
(***************************************************************************)
C4_OneSummaryRow ==
    Cardinality(SummaryRows) <= 1

(***************************************************************************)
(* C5.  The deadline is evaluated only at the top of an iteration.  In     *)
(* every step: the session becomes TimedOut only at the loop top with      *)
(* elapsed time >= the duration; the loop top with elapsed time >= the     *)
(* duration goes to TimedOut and generates no problem; the clock passing   *)
(* during a capture leaves the capture Accumulating with its buffer; and   *)
(* a returned integer answer is classified, recorded and logged by its     *)
(* value alone, whatever the clock says.                                   *)
(***************************************************************************)
C5_Record(status) ==
    [problem |-> problem, user_answer |-> user_input, status |-> status,
     time_taken |-> now - question_start_time]

C5_Row(correct) ==
    [kind |-> "row",
     cells |-> <<now, now - question_start_time, problem, user_input, correct>>]

C5_Step ==
    /\ (session' = "TimedOut" /\ session # "TimedOut") =>
          /\ pc = "loop_top" /\ pc' = "fin_log"
          /\ now - start_time >= TimerDuration
    /\ (pc = "loop_top" /\ now - start_time >= TimerDuration /\ MainStep) =>
          /\ session' = "TimedOut"
          /\ nproblems' = nproblems
    /\ (pc = "cap_read" /\ now' # now) =>
          /\ pc' = "cap_read"
          /\ user_input' = user_input
    /\ (Returned /\ MainStep /\ ~SaysExit(user_input) /\ IntParses(user_input)) =>
          pc' = IF IntValue(user_input) = answer THEN "correct_append"
                ELSE "wrong_append"
    /\ (pc = "correct_append" /\ MainStep) =>
          question_log' = Append(question_log, C5_Record("Correct"))
    /\ (pc = "wrong_append" /\ MainStep) =>
          question_log' = Append(question_log, C5_Record("Wrong"))
    /\ (pc = "correct_log" /\ MainStep) =>
          /\ Len(detailed_log') > 0
          /\ detailed_log'[Len(detailed_log')] = C5_Row(TRUE)
    /\ (pc = "wrong_log" /\ MainStep) =>
          /\ Len(detailed_log') > 0
          /\ detailed_log'[Len(detailed_log')] = C5_Row(FALSE)

C5_DeadlineOnlyAtLoopTop == [][C5_Step]_vars

\* an answer whose capture ran past the deadline was logged, then the session timed out
C5_Witness ==
    /\ session = "TimedOut"
    /\ \E i \in DetailedRows : detailed_log[i].cells[1] - start_time >= TimerDuration

(***************************************************************************)
(* C6.  A returned answer that case-insensitively equals "exit" takes the  *)
(* session to UserExited and straight to finalize, with score,             *)
(* question_log and the detailed log untouched; from then on none of them  *)
(* changes and no problem is generated.  No condition on the clock: the    *)
(* same holds when the deadline passed during the capture.                 *)
(***************************************************************************)
C6_Step ==
    /\ (Returned /\ MainStep /\ SaysExit(user_input)) =>
          /\ session' = "UserExited"
          /\ pc' = "fin_log"
          /\ UNCHANGED <<score, question_log, detailed_log, nproblems>>
    /\ session = "UserExited" =>
          /\ session' = "UserExited"
          /\ pc' \in {"fin_log", "fin_report", "done", "exited"}
          /\ UNCHANGED <<score, question_log, detailed_log, nproblems>>

C6_ExitFinalizesAtOnce == [][C6_Step]_vars

\* "exit" typed across the deadline: the session ended UserExited, finalized
C6_Witness ==
    /\ session = "UserExited" /\ pc = "done"
    /\ now - start_time >= TimerDuration
    /\ Cardinality(SummaryRows) = 1

(***************************************************************************)
(* C7.  The detailed log changes only by gaining one row for a returned    *)
(* answer that parses as an integer, whose correct field says whether its  *)
(* value equals the problem's answer; every such answer reaches that row;  *)
(* and in a session that ended by exit or timeout every summary row's      *)
(* Final Score is the number of correct=true rows, with exactly one        *)
(* summary row when play_game returns.                                     *)
(***************************************************************************)
C7_CorrectRows == {i \in DetailedRows : detailed_log[i].cells[5] = TRUE}

C7_Step ==
    /\ detailed_log' # detailed_log =>
          /\ pc \in {"correct_log", "wrong_log"}
          /\ IntParses(user_input) /\ ~SaysExit(user_input)
          /\ Cardinality(DataRows(detailed_log')) = Cardinality(DetailedRows) + 1
          /\ \A i \in 1..Len(detailed_log) :
                detailed_log'[i + Len(detailed_log') - Len(detailed_log) - 1]
                    = detailed_log[i]
          /\ detailed_log'[Len(detailed_log')].kind = "row"
          /\ detailed_log'[Len(detailed_log')].cells[4] = user_input
          /\ detailed_log'[Len(detailed_log')].cells[5]
                = (IntValue(user_input) = answer)
    /\ (Returned /\ MainStep /\ IntParses(user_input) /\ ~SaysExit(user_input)) =>
          pc' \in {"correct_append", "wrong_append"}
    /\ (pc = "correct_append" /\ MainStep) => pc' = "correct_log"
    /\ (pc = "wrong_append" /\ MainStep) => pc' = "wrong_log"
    /\ (pc \in {"correct_log", "wrong_log"} /\ MainStep) =>
          Len(detailed_log') > Len(detailed_log)

C7_Final ==
    session \in {"UserExited", "TimedOut"} =>
        /\ \A i \in SummaryRows :
              summary_log[i].cells[3] = Cardinality(C7_CorrectRows)
        /\ pc = "done" => Cardinality(SummaryRows) = 1

C7_RowsAndFinalScore == []C7_Final /\ [][C7_Step]_vars

\* one correct answer, one wrong answer, then "exit": two rows, Final Score 1
C7_Witness ==
    /\ session = "UserExited" /\ pc = "done"
    /\ Cardinality(DetailedRows) = 2
    /\ Cardinality(C7_CorrectRows) = 1
    /\ \E i \in SummaryRows : summary_log[i].cells[3] = 1

(***************************************************************************)
(* C8.  A returned answer that is neither "exit" nor parseable as an       *)
(* integer changes nothing: score, question_log and the detailed log stay  *)
(* as they are, the session stays Running and control goes to the loop     *)
(* top; and a capture is only ever entered from the loop top, for a newly  *)
(* generated problem.                                                      *)
(***************************************************************************)
C8_Step ==
    /\ (Returned /\ MainStep /\ ~SaysExit(user_input) /\ ~IntParses(user_input)) =>
          /\ pc' = "loop_top"
          /\ session' = "Running"
          /\ UNCHANGED <<score, question_log, detailed_log>>
    /\ (pc' = "cap_enter" /\ pc # "cap_enter") =>
          /\ pc = "loop_top"
          /\ nproblems' = nproblems + 1

C8_InvalidInputChangesNothing == [][C8_Step]_vars

\* after an invalid answer to the first problem, a second problem is asked
C8_Witness ==
    /\ pc = "cap_enter" /\ nproblems = 2 /\ session = "Running"
    /\ score = 0 /\ question_log = <<>> /\ detailed_log = <<>>

(***************************************************************************)
(* C9.  In the capture, a keystroke appended to the buffer that makes it   *)
(* an optionally-negative integer literal of value correct_answer makes    *)
(* the capture return, with that buffer, without another key; and a        *)
(* capture that returns without a final Enter holds such a literal or      *)
(* "exit" in any case.                                                     *)
(***************************************************************************)
C9_LastKey == keys_read[Len(keys_read)]

C9_Step ==
    /\ ( /\ pc = "cap_read"
         /\ Len(keys_read') = Len(keys_read) + 1
         /\ keys_read'[Len(keys_read')] \in Chars
         /\ MatchesAnswer(user_input') ) =>
          (pc' = "cap_finally" /\ exc' = "none")
    /\ (pc = "cap_finally" /\ pc' # pc /\ exc = "none") =>
          (pc' = "post_capture" /\ user_input' = user_input)

C9_Returned ==
    (pc \in {"cap_finally", "post_capture"} /\ exc = "none") =>
        /\ keys_read # <<>>
        /\ C9_LastKey \notin EnterKeys =>
              (MatchesAnswer(user_input) \/ SaysExit(user_input))

C9_AutoSubmitOnAnswer == []C9_Returned /\ [][C9_Step]_vars

\* correct_answer 7, the single key "7": returned "7"
C9_Witness ==
    answer = 7 /\ Returned /\ keys_read = <<"7">> /\ user_input = <<"7">>

(***************************************************************************)
(* C10, as claimed.  With correct_answer 42 and the keys "4", "2", Enter,  *)
(* the capture returns "42" only on reading the Enter.                     *)
(***************************************************************************)
C10_EnterConsumed ==
    ( /\ answer = 42 /\ Returned
      /\ Len(keys_read) >= 2 /\ keys_read[1] = "4" /\ keys_read[2] = "2" ) =>
        /\ Len(keys_read) = 3 /\ keys_read[3] \in EnterKeys
        /\ user_input = <<"4", "2">>

(***************************************************************************)
(* C10, amended.  With correct_answer 42 the capture is still waiting      *)
(* after "4", and returns "42" as soon as "2" follows: it reads no third   *)
(* key, so an Enter typed next is not consumed by this capture.            *)
(***************************************************************************)
C10_AutoSubmitAtTwo ==
    (answer = 42 /\ Len(keys_read) >= 1 /\ keys_read[1] = "4") =>
        /\ Len(keys_read) = 1 => (pc = "cap_read" /\ user_input = <<"4">>)
        /\ (Len(keys_read) >= 2 /\ keys_read[2] = "2") =>
              /\ keys_read = <<"4", "2">>
              /\ pc \in {"cap_finally", "post_capture"} /\ exc = "none"
              /\ user_input = <<"4", "2">>

C10_Witness ==
    /\ answer = 42 /\ Returned
    /\ keys_read = <<"4", "2">> /\ user_input = <<"4", "2">>

(***************************************************************************)
(* C11.  A keystroke appended to the buffer that makes it equal "exit" in  *)
(* any mix of cases makes the capture return, with that buffer, without    *)
(* another key, for every correct_answer.                                  *)
(***************************************************************************)
C11_Step ==
    /\ ( /\ pc = "cap_read"
         /\ Len(keys_read') = Len(keys_read) + 1
         /\ keys_read'[Len(keys_read')] \in Chars
         /\ SaysExit(user_input') ) =>
          (pc' = "cap_finally" /\ exc' = "none")
    /\ (pc = "cap_finally" /\ pc' # pc /\ exc = "none" /\ SaysExit(user_input)) =>
          (pc' = "post_capture" /\ user_input' = user_input)

C11_AutoSubmitOnExit == [][C11_Step]_vars

\* "E","x","i","t" against correct_answer 42: returned "Exit" after the "t"
C11_Witness ==
    /\ answer = 42 /\ Returned
    /\ keys_read = <<"E", "x", "i", "t">> /\ user_input = <<"E", "x", "i", "t">>

(***************************************************************************)
(* C12.  While the capture waits, its buffer is the result of applying the *)
(* keys read so far in order (a character appends, a backspace removes the *)
(* last character of a non-empty buffer and does nothing to an empty one); *)
(* and once an Enter has been read the capture returns exactly the buffer  *)
(* of the keys before it, whatever it holds.                               *)
(***************************************************************************)
RECURSIVE C12_Apply(_)
C12_Apply(keys) ==
    IF keys = <<>> THEN <<>>
    ELSE LET b == C12_Apply(SubSeq(keys, 1, Len(keys) - 1))
             k == keys[Len(keys)]
         IN IF k \in BackspaceKeys
            THEN (IF b = <<>> THEN b ELSE SubSeq(b, 1, Len(b) - 1))
            ELSE IF k \in Chars THEN Append(b, k)
            ELSE b

C12_EnterReturnsBuffer ==
    /\ pc = "cap_read" => user_input = C12_Apply(keys_read)
    /\ (keys_read # <<>> /\ keys_read[Len(keys_read)] \in EnterKeys) =>
          /\ pc \in {"cap_finally", "post_capture"} /\ exc = "none"
          /\ user_input = C12_Apply(SubSeq(keys_read, 1, Len(keys_read) - 1))

\* "9","9",backspace,Enter returned "9"
C12_Witness ==
    /\ Returned
    /\ keys_read = <<"9", "9", "DEL", "CR">> /\ user_input = <<"9">>

(***************************************************************************)
(* C13.  Once Ctrl+C has been read the capture returns no value: the       *)
(* KeyboardInterrupt is on its way out of get_user_input, and when it has  *)
(* left, the terminal is in the mode the call found.                       *)
(***************************************************************************)
C13_CtrlCPropagates ==
    (keys_read # <<>> /\ keys_read[Len(keys_read)] = CTRL_C) =>
        /\ pc \in {"cap_finally", "crashed"}
        /\ exc = "KeyboardInterrupt"
        /\ pc = "crashed" => termMode = old_settings

\* Ctrl+C after "4","2" was half typed, terminal found in cbreak mode
C13_Witness ==
    /\ pc = "crashed" /\ exc = "KeyboardInterrupt"
    /\ keys_read = <<"4", CTRL_C>> /\ user_input = <<"4">>
    /\ old_settings = "cbreak" /\ termMode = "cbreak"

(***************************************************************************)
(* C14.  Both log files are append-only over sessions and writes: a step   *)
(* leaves every row already in a file unchanged and in place, adding rows  *)
(* at the end only; and a file that exists holds exactly one header row,   *)
(* its first row.                                                          *)
(***************************************************************************)
C14_OneHeader(file, header) ==
    file # <<>> =>
        /\ file[1] = header
        /\ \A i \in 2..Len(file) : file[i].kind = "row"

C14_Grows(old, new) ==
    /\ Len(new) >= Len(old)
    /\ SubSeq(new, 1, Len(old)) = old

C14_Headers ==
    /\ C14_OneHeader(detailed_log, DetailedHeader)
    /\ C14_OneHeader(summary_log, SummaryHeader)

C14_Step ==
    /\ C14_Grows(detailed_log, detailed_log')
    /\ C14_Grows(summary_log, summary_log')

C15_SubtractionNonNegative ==
    (problem # <<>> /\ problem[2] = "-") =>
        /\ problem[1] \in ADD_SUB_RANGE /\ problem[3] \in ADD_SUB_RANGE
        /\ problem[1] >= problem[3]
        /\ answer = problem[1] - problem[3]
        /\ answer >= 0

\* drawn 2 then 100: shown as 100 - 2
C15_Witness ==
    /\ pc = "cap_enter"
    /\ problem = <<100, "-", 2>> /\ answer = 98

(***************************************************************************)
(* C16.  Every generated division has a non-zero operand2 of the small     *)
(* range, operand1 mod operand2 = 0 and correct answer * operand2 =        *)
(* operand1, the answer being a multiplier of the big range.               *)
(***************************************************************************)
C16_DivisionExact ==
    (problem # <<>> /\ problem[2] = "/") =>
        /\ problem[3] \in MULT_SMALL_RANGE
        /\ problem[3] # 0
        /\ problem[1] % problem[3] = 0
        /\ answer * problem[3] = problem[1]
        /\ answer \in MULT_BIG_RANGE

\* divisor 12, multiplier 100
C16_Witness ==
    /\ pc = "cap_enter"
    /\ problem = <<1200, "/", 12>> /\ answer = 100

(***************************************************************************)
(* C17.  The summary log has exactly the columns Timestamp, Duration (s),  *)
(* Final Score: its header names exactly these three, and every data row   *)
(* has one field per header column.                                        *)
(* Fails: log_summary writes the header Timestamp, Duration (s), Final     *)
(* Score, Questions & Answers (line 120), four columns, over rows of the   *)
(* three fields of format_session_data (line 130).                         *)
(***************************************************************************)
C17_ThreeColumns ==
    summary_log # <<>> =>
        /\ summary_log[1].kind = "header"
        /\ summary_log[1].cells = <<"Timestamp", "Duration (s)", "Final Score">>
        /\ \A i \in SummaryRows :
              Len(summary_log[i].cells) = Len(summary_log[1].cells)

(***************************************************************************)
(* C18.  In every summary row a session emits, whatever its terminal       *)
(* state, Final Score is the number of Correct records listed in the       *)
(* session's final report.                                                 *)
(* Fails: a SIGINT taken after question_log.append (lines 233-235) and     *)
(* before score += 1 (line 240) finalizes with the record in the report    *)
(* and the score one short.                                                *)
(***************************************************************************)
C18_CorrectLines == {i \in 1..Len(report) : report[i].marker = "ok"}

C18_ScoreMatchesReport ==
    (Terminated /\ report # <<>>) =>
        \A i \in SummaryRows :
            summary_log[i].cells[3] = Cardinality(C18_CorrectLines)

(***************************************************************************)
(* C19.  Whenever the capture waits for the next key, its buffer satisfies *)
(* neither auto-submit predicate: it does not say "exit" in any mix of     *)
(* cases and it is not an integer literal whose value is the correct       *)
(* answer; this after any sequence of appends and backspaces, backspace    *)
(* making no check of its own.                                             *)
(***************************************************************************)
C19_NothingLeftUnsubmitted ==
    pc = "cap_read" =>
        /\ ~SaysExit(user_input)
        /\ ~MatchesAnswer(user_input)

\* "4","9",backspace against correct_answer 42: waiting with "4"
C19_Witness ==
    /\ pc = "cap_read" /\ answer = 42
    /\ keys_read = <<"4", "9", "DEL">> /\ user_input = <<"4">>

(***************************************************************************)
(* C20.  If the clock comes to pass the deadline and every capture         *)
(* eventually returns (or is cut short by the signal handler), the session *)
(* eventually reaches a terminal state with its summary row written; and   *)
(* with the clock advancing, a session that never terminates is one whose  *)
(* capture stays blocked on the key read for ever.                         *)
(***************************************************************************)
C20_ClockAdvances == <>(now - start_time >= TimerDuration)

C20_Blocked == pc = "cap_read" /\ hpc = "none"

C20_CapturesReturn == [](C20_Blocked => <>(pc = "post_capture" \/ hpc # "none"))

C20_Finalized == Terminated /\ SummaryRows # {}

C20_Terminates ==
    /\ (C20_ClockAdvances /\ C20_CapturesReturn) => <>C20_Finalized
    /\ C20_ClockAdvances => (<>Terminated \/ <>[]C20_Blocked)

\* the deadline passed during a capture, the answer came, the loop top
\* finalized
C20_Witness ==
    /\ pc = "done" /\ session = "TimedOut"
    /\ now - start_time >= TimerDuration
    /\ SummaryRows # {} /\ nproblems >= 1

(***************************************************************************)
(* C21.  Throughout a session question_log changes only by one record      *)
(* appended at its end per integer-parsable answer, records already there  *)
(* staying as they are and where they are (the report lists them in that   *)
(* order); and score starts at 0, never decreases and grows by exactly 1   *)
(* per correct answer and by 0 otherwise, so that outside the scoring of   *)
(* an answer score is the number of correct answers recorded.              *)
(* Fails in its count only: after a SIGINT taken between lines 233 and 240 *)
(* (C18) the session has ended with a correct answer recorded and no       *)
(* increment for it.  Every step keeps to C21_Step.                        *)
(***************************************************************************)
C21_CorrectRecords == {i \in 1..Len(question_log) : question_log[i].status = "Correct"}

C21_Step ==
    /\ question_log' # question_log =>
          /\ hpc = "none" /\ pc \in {"correct_append", "wrong_append"}
          /\ IntParses(user_input) /\ ~SaysExit(user_input)
          /\ Len(question_log') = Len(question_log) + 1
          /\ SubSeq(question_log', 1, Len(question_log)) = question_log
          /\ question_log'[Len(question_log')].user_answer = user_input
          /\ question_log'[Len(question_log')].status =
                (IF IntValue(user_input) = answer THEN "Correct" ELSE "Wrong")
    /\ ((pc \in {"correct_append", "wrong_append"}) /\ MainStep) =>
          question_log' # question_log
    /\ score' # score =>
          /\ hpc = "none" /\ pc = "correct_score"
          /\ score' = score + 1
          /\ question_log # <<>>
          /\ question_log[Len(question_log)].status = "Correct"
    /\ (pc = "correct_score" /\ MainStep) => score' = score + 1
    /\ report' # report =>
          /\ Len(report') = Len(question_log)
          /\ \A i \in 1..Len(question_log) : report'[i].entry = question_log[i]

C21_Counts ==
    /\ score >= 0
    /\ nproblems = 0 => (score = 0 /\ question_log = <<>>)
    /\ pc \notin {"correct_log", "correct_score"} =>
          score = Cardinality(C21_CorrectRecords)

C21_LogAndScore == []C21_Counts /\ [][C21_Step]_vars

C21_StepsOnly == [][C21_Step]_vars

====
